---- MODULE Spec2Model ----
(***************************************************************************)
(* Model of the bridge relayer of script.py: BridgeEventListener.run (the  *)
(* polling loop with its watermark last_processed_block) and               *)
(* BridgeEventHandler.process_event (the dedup set processed_transactions  *)
(* and the build+sign of the release transaction).                         *)
(*                                                                         *)
(* The two ledgers are the environment: the source ledger is a fixed event *)
(* log plus a head height that each read may report as any height, and     *)
(* every RPC of either ledger may fail.                                    *)
(***************************************************************************)
EXTENDS Integers, Sequences, FiniteSets, Bags

\* ---------------------------------------------------------------- bounds
\* Highest block height of the source ledger.
MaxBlock == 3
\* Number of distinct transactionId values the source contract emits.
NumIds == 2
\* Number of events in the source ledger's log.
MaxEvents == 2

\* Largest number of blocks the source node answers for in one event query.
ScanRangeCap == 2

Blocks == 1..MaxBlock

\* transactionId values: one-byte strings 0xAA, 0xAB, ...
TxIds == { <<170 + k>> : k \in 0..(NumIds - 1) }

\* ------------------------------------------------------------ conversions
HexDigits == <<"0","1","2","3","4","5","6","7","8","9","a","b","c","d","e","f">>

\* bytes.hex(): two lower-case hex digits per byte, high nibble first.
RECURSIVE Hex(_)
Hex(bytes) ==
    IF bytes = <<>> THEN <<>>
    ELSE <<HexDigits[(Head(bytes) \div 16) + 1], HexDigits[(Head(bytes) % 16) + 1]>>
         \o Hex(Tail(bytes))

\* tx_id = event['args']['transactionId'].hex()
TxIdOf(event) == Hex(event.transactionId)

\* ------------------------------------------------------- the source ledger
\* Values of the payload fields of an event.
Senders == {"0xS1", "0xS2"}
Tokens == {"0xT1", "0xT2"}
Amounts == {50, 51}

\* The events BridgeTransferInitiated(transactionId, sender, ..., token,
\* amount) mined in a block of `blocks`, with payload fields of the given sets.
EventsOf(blocks, senders, tokens, amounts) ==
    [transactionId : TxIds, sender : senders, token : tokens, amount : amounts,
     blockNumber : blocks]

\* The events of the relay runs: the loop never reads the payload, one value
\* of each field is enough.
EventRec == EventsOf(Blocks, {"0xS1"}, {"0xT1"}, {50})

\* Logs are in emission order: ascending block, then position in the log.
IsLog(s) == \A k \in 1..(Len(s) - 1) : s[k].blockNumber <= s[k + 1].blockNumber

\* The logs of at most n events of evs.
LogsOf(evs, n) == { s \in UNION { [1..m -> evs] : m \in 0..n } : IsLog(s) }

Logs == LogsOf(EventRec, MaxEvents)

\* create_filter(fromBlock, toBlock).get_all_entries(): the events of the log
\* whose block lies in [from, to], in log order.
RECURSIVE GetAllEntries(_, _, _)
GetAllEntries(lg, from, to) ==
    IF lg = <<>> THEN <<>>
    ELSE (IF Head(lg).blockNumber >= from /\ Head(lg).blockNumber <= to
          THEN <<Head(lg)>> ELSE <<>>)
         \o GetAllEntries(Tail(lg), from, to)

\* ------------------------------------------------------ the environment
\* required_vars of load_config_from_env.
RequiredVars == {"SOURCE_CHAIN_RPC", "DESTINATION_CHAIN_RPC", "SOURCE_BRIDGE_ADDRESS",
                 "DESTINATION_BRIDGE_ADDRESS", "LISTENER_PRIVATE_KEY"}

DecDigits == <<"0","1","2","3","4","5","6","7","8","9">>

\* The strings int() takes as a plain decimal number.
IsDecimal(s) ==
    /\ Len(s) > 0
    /\ \A k \in 1..Len(s) : \E d \in 1..10 : DecDigits[d] = s[k]

DigitValue(c) == (CHOOSE d \in 1..10 : DecDigits[d] = c) - 1

\* int(s) of a decimal string.
RECURSIVE ParseInt(_)
ParseInt(s) ==
    IF Len(s) = 0 THEN 0
    ELSE 10 * ParseInt(SubSeq(s, 1, Len(s) - 1)) + DigitValue(s[Len(s)])

\* The decimal string of n, as written in the environment.
RECURSIVE Decimal(_)
Decimal(n) ==
    IF n < 10 THEN <<DecDigits[n + 1]>>
    ELSE Decimal(n \div 10) \o <<DecDigits[(n % 10) + 1]>>

\* START_BLOCK is unset, a decimal number or not a number.
StartBlockSettings ==
    {[set |-> FALSE, value |-> <<>>]}
    \cup {[set |-> TRUE, value |-> v] :
            v \in {Decimal(n) : n \in 0..MaxBlock} \cup {<<"x">>}}

\* present: the required variables os.getenv finds with a non-empty value.
Environs == [present : SUBSET RequiredVars, START_BLOCK : StartBlockSettings]

\* An environment with every required variable and START_BLOCK = n.
FullEnviron(n) ==
    [present |-> RequiredVars, START_BLOCK |-> [set |-> TRUE, value |-> Decimal(n)]]

\* ------------------------------------------------------------------ state
VARIABLES
    pc,                      \* position of the loop of run()
    last_processed_block,    \* the watermark
    processed_transactions,  \* the dedup set (hex strings)
    log,                     \* the source ledger's event log
    latest_block,            \* locals of run()
    from_block,
    to_block,
    events,
    i,                       \* position of `for event in events`
    building,                \* events whose release transaction is being built
    wm0,                     \* history: the watermark at the start of the cycle
    status,                  \* history: how the cycle went so far
    queried,                 \* history: the event queries issued this cycle
    outcomes,                \* history: outcome of each dispatch of this cycle
    attempts,                \* history: build attempts per tx_id
    built,                   \* history: successful build+sign per tx_id
    release_args,            \* arguments of the releaseTokens call being built
    covered,                 \* history: blocks of the scans that advanced
    wm_init,                 \* history: the watermark when run() was entered
    head_range,              \* heights the source ledger may report
    environ,                 \* the process environment
    config,                  \* the BridgeConfig of load_config_from_env
    exit_status              \* <<exit status>> once the process has ended

vars == <<pc, last_processed_block, processed_transactions, log, latest_block,
          from_block, to_block, events, i, building, wm0, status, queried,
          outcomes, attempts, built, release_args, covered, wm_init,
          head_range, environ, config, exit_status>>

loopVars == <<latest_block, from_block, to_block, events, i>>
histVars == <<wm0, status, queried, outcomes, attempts, built>>
\* What the loop of run() never writes.
envVars == <<wm_init, head_range, environ, config, exit_status>>

HexIds == { Hex(id) : id \in TxIds }

PcValues == {"head", "query", "loop", "process_event", "build", "sleep", "crashed",
             "main", "init", "exited"}
Outcomes == {"Relayed", "AlreadyRelayed", "Failed"}

TypeOK ==
    /\ pc \in PcValues
    /\ last_processed_block \in Nat
    /\ processed_transactions \subseteq HexIds
    /\ IsLog(log)
    /\ latest_block \in head_range \cup {0}
    /\ from_block \in Nat
    /\ to_block \in head_range \cup {0}
    /\ i \in 0..Len(events)
    /\ building \subseteq 1..Len(events)
    /\ wm0 \in Nat
    /\ status \in {"start", "head_ok", "head_failed", "query_ok", "query_failed"}
    /\ Len(queried) <= 1
    /\ \A k \in 1..Len(outcomes) : outcomes[k] \in Outcomes
    /\ attempts \in [HexIds -> Nat]
    /\ built \in [HexIds -> Nat]
    /\ Len(release_args) \in {0, 4}
    /\ IsABag(covered)
    /\ wm_init \in Nat
    /\ environ \in Environs \cup {FullEnviron(n) : n \in head_range}
    /\ config.start_block \in Nat
    /\ exit_status \in {<<>>, <<0>>}

\* The state when run() is entered with watermark wm, reading the ledger lg
\* whose head reads report heights of heads: the dedup set is empty.
RunEntered(wm, lg, heads) ==
    /\ pc = "head"
    /\ last_processed_block = wm
    /\ processed_transactions = {}
    /\ log = lg
    /\ latest_block = 0
    /\ from_block = 0
    /\ to_block = 0
    /\ events = <<>>
    /\ i = 0
    /\ building = {}
    /\ wm0 = wm
    /\ status = "start"
    /\ queried = <<>>
    /\ outcomes = <<>>
    /\ attempts = [h \in HexIds |-> 0]
    /\ built = [h \in HexIds |-> 0]
    /\ release_args = <<>>
    /\ covered = EmptyBag
    /\ wm_init = wm
    /\ head_range = heads
    /\ environ = FullEnviron(wm)
    /\ config = [start_block |-> wm]
    /\ exit_status = <<>>

\* The relay runs: any watermark, any log.
Init == \E wm \in 0..MaxBlock, lg \in Logs : RunEntered(wm, lg, 0..MaxBlock)

\* The logs of the start-block-100 runs: at most one event, in one of the
\* blocks 101..105.
ScenarioLogs == LogsOf(EventsOf(101..105, {"0xS1"}, {"0xT1"}, {50}), 1)

\* The start-block-100 runs: the watermark is 100, the ledger reports heads
\* of 100..105.
InitScenario == \E lg \in ScenarioLogs : RunEntered(100, lg, 100..105)

\* The logs of the release runs: every event in block 1, any payload.
ReleaseLogs == LogsOf(EventsOf({1}, Senders, Tokens, Amounts), MaxEvents)

\* The release runs: the watermark below the events, any payload.
InitRelease == \E lg \in ReleaseLogs : RunEntered(0, lg, 0..1)

\* ------------------------------------------------------------ run(): head
\* A new cycle starts: the per-cycle history is reset.
NewCycle ==
    /\ wm0' = last_processed_block
    /\ queried' = <<>>
    /\ outcomes' = <<>>

\* A mutant of ReadHead: the branch is taken whenever the head differs from
\* the watermark.
ReadHeadAnyChange ==
    /\ pc = "head"
    /\ \E h \in head_range :
        /\ latest_block' = h
        /\ IF h # last_processed_block
           THEN /\ from_block' = last_processed_block + 1
                /\ to_block' = h
                /\ pc' = "query"
           ELSE /\ UNCHANGED <<from_block, to_block>>
                /\ pc' = "sleep"
    /\ NewCycle
    /\ status' = "head_ok"
    /\ UNCHANGED <<last_processed_block, processed_transactions, log, events, i,
                   building, attempts, built>>
    /\ UNCHANGED <<release_args, covered, envVars>>

\* A mutant of ReadHead: the branch is taken when the head equals the
\* watermark too.
ReadHeadAtOrAbove ==
    /\ pc = "head"
    /\ \E h \in head_range :
        /\ latest_block' = h
        /\ IF h >= last_processed_block
           THEN /\ from_block' = last_processed_block + 1
                /\ to_block' = h
                /\ pc' = "query"
           ELSE /\ UNCHANGED <<from_block, to_block>>
                /\ pc' = "sleep"
    /\ NewCycle
    /\ status' = "head_ok"
    /\ UNCHANGED <<last_processed_block, processed_transactions, log, events, i,
                   building, attempts, built>>
    /\ UNCHANGED <<release_args, covered, envVars>>

\* A mutant of ReadHead: the scan starts at the watermark itself.
ReadHeadFromWatermark ==
    /\ pc = "head"
    /\ \E h \in head_range :
        /\ latest_block' = h
        /\ IF h > last_processed_block
           THEN /\ from_block' = last_processed_block
                /\ to_block' = h
                /\ pc' = "query"
           ELSE /\ UNCHANGED <<from_block, to_block>>
                /\ pc' = "sleep"
    /\ NewCycle
    /\ status' = "head_ok"
    /\ UNCHANGED <<last_processed_block, processed_transactions, log, events, i,
                   building, attempts, built>>
    /\ UNCHANGED <<release_args, covered, envVars>>

\* latest_block = web3.eth.block_number succeeds with height h, and
\* `if latest_block > self.last_processed_block` chooses the branch.
ReadHead ==
    /\ pc = "head"
    /\ \E h \in head_range :
        /\ latest_block' = h
        /\ IF h > last_processed_block
           THEN /\ from_block' = last_processed_block + 1
                /\ to_block' = h
                /\ pc' = "query"
           ELSE /\ UNCHANGED <<from_block, to_block>>
                /\ pc' = "sleep"
    /\ NewCycle
    /\ status' = "head_ok"
    /\ UNCHANGED <<last_processed_block, processed_transactions, log, events, i,
                   building, attempts, built>>
    /\ UNCHANGED <<release_args, covered, envVars>>

\* A mutant of ReadHeadFails: the failure is swallowed at the read and the
\* cycle goes on with the height of the previous read.
ReadHeadFailsStaleHead ==
    /\ pc = "head"
    /\ IF latest_block > last_processed_block
       THEN /\ from_block' = last_processed_block + 1
            /\ to_block' = latest_block
            /\ pc' = "query"
       ELSE /\ UNCHANGED <<from_block, to_block>>
            /\ pc' = "sleep"
    /\ NewCycle
    /\ status' = "head_failed"
    /\ UNCHANGED <<last_processed_block, processed_transactions, log, latest_block,
                   events, i, building, attempts, built>>
    /\ UNCHANGED <<release_args, covered, envVars>>

\* A mutant of ReadHeadFails: no handler around the head read.
ReadHeadFailsUncaught ==
    /\ pc = "head"
    /\ pc' = "crashed"
    /\ NewCycle
    /\ status' = "head_failed"
    /\ UNCHANGED <<last_processed_block, processed_transactions, log, loopVars,
                   building, attempts, built>>
    /\ UNCHANGED <<release_args, covered, envVars>>

\* web3.eth.block_number raises: caught by `except ... ConnectionError` or
\* `except Exception`, both fall through to time.sleep.
ReadHeadFails ==
    /\ pc = "head"
    /\ pc' = "sleep"
    /\ NewCycle
    /\ status' = "head_failed"
    /\ UNCHANGED <<last_processed_block, processed_transactions, log, loopVars,
                   building, attempts, built>>
    /\ UNCHANGED <<release_args, covered, envVars>>

\* ----------------------------------------------------------- run(): query
\* create_filter(...).get_all_entries() returns the events of the range.
Query ==
    /\ pc = "query"
    /\ events' = GetAllEntries(log, from_block, to_block)
    /\ i' = 0
    /\ queried' = Append(queried, <<from_block, to_block>>)
    /\ status' = "query_ok"
    /\ pc' = "loop"
    /\ UNCHANGED <<last_processed_block, processed_transactions, log, latest_block,
                   from_block, to_block, building, wm0, outcomes, attempts, built>>
    /\ UNCHANGED <<release_args, covered, envVars>>

\* A mutant of QueryFails: the failure is taken for an empty result.
QueryFailsAsEmpty ==
    /\ pc = "query"
    /\ events' = <<>>
    /\ i' = 0
    /\ queried' = Append(queried, <<from_block, to_block>>)
    /\ status' = "query_failed"
    /\ pc' = "loop"
    /\ UNCHANGED <<last_processed_block, processed_transactions, log, latest_block,
                   from_block, to_block, building, wm0, outcomes, attempts, built>>
    /\ UNCHANGED <<release_args, covered, envVars>>

\* create_filter or get_all_entries raises: caught by the handlers of run().
QueryFails ==
    /\ pc = "query"
    /\ queried' = Append(queried, <<from_block, to_block>>)
    /\ status' = "query_failed"
    /\ pc' = "sleep"
    /\ UNCHANGED <<last_processed_block, processed_transactions, log, loopVars,
                   building, wm0, outcomes, attempts, built>>
    /\ UNCHANGED <<release_args, covered, envVars>>

\* --------------------------------------------------- run(): the for loop
\* A mutant of ForNext: the next dispatch starts without waiting for the one
\* in progress.
ForNextNoWait ==
    /\ pc \in {"loop", "build"}
    /\ i < Len(events)
    /\ i' = i + 1
    /\ pc' = "process_event"
    /\ UNCHANGED <<last_processed_block, processed_transactions, log, latest_block,
                   from_block, to_block, events, building, histVars>>
    /\ UNCHANGED <<release_args, covered, envVars>>

\* `for event in events: self.event_handler.process_event(event)`: the call
\* for the next event is made when the previous call has returned.
ForNext ==
    /\ pc = "loop"
    /\ i < Len(events)
    /\ i' = i + 1
    /\ pc' = "process_event"
    /\ UNCHANGED <<last_processed_block, processed_transactions, log, latest_block,
                   from_block, to_block, events, building, histVars>>
    /\ UNCHANGED <<release_args, covered, envVars>>

\* ------------------------------------------- _simulate_release_tokens
\* A mutant of ReleaseArgs: recipient and token change places.
ReleaseArgsSwapped(event) ==
    <<event.transactionId, event.token, event.sender, event.amount>>

\* releaseTokens(tx_id, sender_address, args['token'], args['amount']): the
\* raw transactionId, the event's sender as recipient, token and amount.
ReleaseArgs(event) ==
    <<event.transactionId, event.sender, event.token, event.amount>>

\* ---------------------------------------------------------- process_event
\* A mutant of ProcessEventCheck: no lookup in processed_transactions.
ProcessEventNoCheck ==
    /\ pc = "process_event"
    /\ pc' = "build"
    /\ building' = building \cup {i}
    /\ attempts' = [attempts EXCEPT ![TxIdOf(events[i])] = @ + 1]
    /\ UNCHANGED <<last_processed_block, processed_transactions, log, loopVars,
                   wm0, status, queried, outcomes, built>>
    /\ release_args' = ReleaseArgs(events[i])
    /\ UNCHANGED <<covered, envVars>>

\* A mutant of ProcessEventCheck: the id is recorded before the release
\* transaction is built.
ProcessEventAddsFirst ==
    /\ pc = "process_event"
    /\ IF TxIdOf(events[i]) \in processed_transactions
       THEN /\ outcomes' = Append(outcomes, "AlreadyRelayed")
            /\ pc' = "loop"
            /\ UNCHANGED <<building, attempts, processed_transactions, release_args>>
       ELSE /\ pc' = "build"
            /\ building' = building \cup {i}
            /\ attempts' = [attempts EXCEPT ![TxIdOf(events[i])] = @ + 1]
            /\ processed_transactions' =
                   processed_transactions \cup {TxIdOf(events[i])}
            /\ release_args' = ReleaseArgs(events[i])
            /\ UNCHANGED outcomes
    /\ UNCHANGED <<last_processed_block, log, loopVars, wm0, status, queried, built>>
    /\ UNCHANGED <<covered, envVars>>

\* tx_id = ...hex(); `if tx_id in self.processed_transactions: return`,
\* otherwise _simulate_release_tokens(event) is entered.
ProcessEventCheck ==
    /\ pc = "process_event"
    /\ IF TxIdOf(events[i]) \in processed_transactions
       THEN /\ outcomes' = Append(outcomes, "AlreadyRelayed")
            /\ pc' = "loop"
            /\ UNCHANGED <<building, attempts, release_args>>
       ELSE /\ pc' = "build"
            /\ building' = building \cup {i}
            /\ attempts' = [attempts EXCEPT ![TxIdOf(events[i])] = @ + 1]
            /\ release_args' = ReleaseArgs(events[i])
            /\ UNCHANGED outcomes
    /\ UNCHANGED <<last_processed_block, processed_transactions, log, loopVars,
                   wm0, status, queried, built>>
    /\ UNCHANGED <<covered, envVars>>

\* _simulate_release_tokens returns (from_key, get_transaction_count,
\* gas_price, build_transaction and sign_transaction all succeeded), then
\* self.processed_transactions.add(tx_id).
ReleaseOk ==
    /\ pc = "build"
    /\ processed_transactions' = processed_transactions \cup {TxIdOf(events[i])}
    /\ built' = [built EXCEPT ![TxIdOf(events[i])] = @ + 1]
    /\ outcomes' = Append(outcomes, "Relayed")
    /\ building' = building \ {i}
    /\ pc' = "loop"
    /\ UNCHANGED <<last_processed_block, log, loopVars, wm0, status, queried,
                   attempts>>
    /\ release_args' = <<>>
    /\ UNCHANGED <<covered, envVars>>

\* A mutant of ReleaseFails: the id is recorded although the build failed.
ReleaseFailsMarksProcessed ==
    /\ pc = "build"
    /\ processed_transactions' = processed_transactions \cup {TxIdOf(events[i])}
    /\ outcomes' = Append(outcomes, "Failed")
    /\ building' = building \ {i}
    /\ pc' = "loop"
    /\ UNCHANGED <<last_processed_block, log, loopVars, wm0, status, queried,
                   attempts, built>>
    /\ release_args' = <<>>
    /\ UNCHANGED <<covered, envVars>>

\* A mutant of ReleaseFails: process_event has no handler, the exception
\* reaches the handlers of run().
ReleaseFailsPropagates ==
    /\ pc = "build"
    /\ outcomes' = Append(outcomes, "Failed")
    /\ building' = building \ {i}
    /\ pc' = "sleep"
    /\ UNCHANGED <<last_processed_block, processed_transactions, log, loopVars,
                   wm0, status, queried, attempts, built>>
    /\ release_args' = <<>>
    /\ UNCHANGED <<covered, envVars>>

\* A mutant of ReleaseFails: the failed build is tried again inside the call.
ReleaseFailsRetries ==
    /\ pc = "build"
    /\ attempts' = [attempts EXCEPT ![TxIdOf(events[i])] = @ + 1]
    /\ pc' = "build"
    /\ UNCHANGED <<last_processed_block, processed_transactions, log, loopVars,
                   building, wm0, status, queried, outcomes, built>>
    /\ UNCHANGED <<release_args, covered, envVars>>

\* _simulate_release_tokens raises (from_key, or the build/sign block, which
\* logs and re-raises); `except Exception` of process_event logs it and
\* process_event returns normally, without the add.
ReleaseFails ==
    /\ pc = "build"
    /\ outcomes' = Append(outcomes, "Failed")
    /\ building' = building \ {i}
    /\ pc' = "loop"
    /\ UNCHANGED <<last_processed_block, processed_transactions, log, loopVars,
                   wm0, status, queried, attempts, built>>
    /\ release_args' = <<>>
    /\ UNCHANGED <<covered, envVars>>

\* ------------------------------------------------- run(): advance and sleep
\* A mutant of Advance: the watermark is set without the loop being done.
AdvanceEarly ==
    /\ pc = "loop"
    /\ last_processed_block' = to_block
    /\ pc' = "sleep"
    /\ UNCHANGED <<processed_transactions, log, loopVars, building, histVars>>
    /\ covered' = covered (+) SetToBag(from_block..to_block)
    /\ UNCHANGED <<release_args, envVars>>

\* A mutant of Advance: the watermark is set to the block of the last event
\* of the scan.
AdvanceToLastEvent ==
    /\ pc = "loop"
    /\ i = Len(events)
    /\ last_processed_block' =
           IF events = <<>> THEN to_block ELSE events[Len(events)].blockNumber
    /\ pc' = "sleep"
    /\ UNCHANGED <<processed_transactions, log, loopVars, building, histVars>>
    /\ covered' = covered (+) SetToBag(from_block..last_processed_block')
    /\ UNCHANGED <<release_args, envVars>>

\* self.last_processed_block = to_block, after the for loop (or after the
\* "No new events" branch).
Advance ==
    /\ pc = "loop"
    /\ i = Len(events)
    /\ last_processed_block' = to_block
    /\ pc' = "sleep"
    /\ UNCHANGED <<processed_transactions, log, loopVars, building, histVars>>
    /\ covered' = covered (+) SetToBag(from_block..to_block)
    /\ UNCHANGED <<release_args, envVars>>

\* time.sleep(poll_interval_seconds), then `while True` starts the next cycle.
Sleep ==
    /\ pc = "sleep"
    /\ pc' = "head"
    /\ UNCHANGED <<last_processed_block, processed_transactions, log, loopVars,
                   building, histVars>>
    /\ UNCHANGED <<release_args, covered, envVars>>

Next ==
    \/ ReadHead
    \/ ReadHeadFails
    \/ Query
    \/ QueryFails
    \/ ForNext
    \/ ProcessEventCheck
    \/ ReleaseOk
    \/ ReleaseFails
    \/ Advance
    \/ Sleep

\* ------------------------------------------------------------- __main__
\* The state when the script starts: nothing is constructed yet, start_block
\* has the default of BridgeConfig.
InitStartup ==
    /\ pc = "main"
    /\ last_processed_block = 0
    /\ processed_transactions = {}
    /\ log \in Logs
    /\ latest_block = 0
    /\ from_block = 0
    /\ to_block = 0
    /\ events = <<>>
    /\ i = 0
    /\ building = {}
    /\ wm0 = 0
    /\ status = "start"
    /\ queried = <<>>
    /\ outcomes = <<>>
    /\ attempts = [h \in HexIds |-> 0]
    /\ built = [h \in HexIds |-> 0]
    /\ release_args = <<>>
    /\ covered = EmptyBag
    /\ wm_init = 0
    /\ head_range = 0..MaxBlock
    /\ environ \in Environs
    /\ config = [start_block |-> 0]
    /\ exit_status = <<>>

\* `if not os.getenv(var)` holds for no required variable.
RequiredPresent == environ.present = RequiredVars

\* int(os.getenv('START_BLOCK', 0)) does not raise.
StartBlockParses == ~environ.START_BLOCK.set \/ IsDecimal(environ.START_BLOCK.value)

\* int(os.getenv('START_BLOCK', 0))
StartBlockOf(env) ==
    IF env.START_BLOCK.set THEN ParseInt(env.START_BLOCK.value) ELSE 0

\* config.start_block or self.source_connector.web3.eth.block_number
StartBlockOrHead(start_block, head) ==
    IF start_block # 0 THEN start_block ELSE head

\* load_config_from_env returns the BridgeConfig.
LoadConfigOk ==
    /\ pc = "main"
    /\ RequiredPresent
    /\ StartBlockParses
    /\ config' = [start_block |-> StartBlockOf(environ)]
    /\ pc' = "init"
    /\ UNCHANGED <<last_processed_block, processed_transactions, log, loopVars,
                   building, histVars, release_args, covered, wm_init, head_range,
                   environ, exit_status>>

\* load_config_from_env raises ValueError (a required variable is missing, or
\* START_BLOCK is no number); `except ValueError` of __main__ logs it and the
\* script ends there, which is exit status 0.
LoadConfigFails ==
    /\ pc = "main"
    /\ ~(RequiredPresent /\ StartBlockParses)
    /\ pc' = "exited"
    /\ exit_status' = <<0>>
    /\ UNCHANGED <<last_processed_block, processed_transactions, log, loopVars,
                   building, histVars, release_args, covered, wm_init, head_range,
                   environ, config>>

\* BridgeEventListener(config) returns and run() is entered: the watermark is
\* the start block, or the head read at that moment.
ListenerInit ==
    /\ pc = "init"
    /\ \E h \in head_range :
        /\ last_processed_block' = StartBlockOrHead(config.start_block, h)
        /\ wm0' = StartBlockOrHead(config.start_block, h)
        /\ wm_init' = StartBlockOrHead(config.start_block, h)
    /\ pc' = "head"
    /\ UNCHANGED <<processed_transactions, log, loopVars, building, status, queried,
                   outcomes, attempts, built, release_args, covered, head_range,
                   environ, config, exit_status>>

\* BridgeEventListener(config) raises (a node is not connected, an address is
\* malformed, the head read fails); `except Exception` of __main__ logs it
\* and the script ends there.
ListenerInitFails ==
    /\ pc = "init"
    /\ pc' = "exited"
    /\ exit_status' = <<0>>
    /\ UNCHANGED <<last_processed_block, processed_transactions, log, loopVars,
                   building, histVars, release_args, covered, wm_init, head_range,
                   environ, config>>

NextStartup ==
    \/ LoadConfigOk
    \/ LoadConfigFails
    \/ ListenerInit
    \/ ListenerInitFails
    \/ Next

Spec == Init /\ [][Next]_vars

\* The relay loop over logs with every payload.
SpecRelease == InitRelease /\ [][Next]_vars

\* The relay loop started at block 100.
SpecScenario == InitScenario /\ [][Next]_vars

\* The script from its start.
SpecStartup == InitStartup /\ [][NextStartup]_vars

\* The relay runs from watermark 0, the runs with the most to scan.
InitFair == \E lg \in Logs : RunEntered(0, lg, 0..MaxBlock)

\* The loop is one sequential thread: whatever step is enabled is taken.
FairSpec == InitFair /\ [][Next]_vars /\ WF_vars(Next)

\* ------------------------------------------------------------ properties
SomeDispatchFailed == \E k \in 1..Len(outcomes) : outcomes[k] = "Failed"

\* C1: every transactionId has at most one successful build+sign over the
\* whole run, and the dispatch of an id that is in the dedup set returns
\* AlreadyRelayed without a build attempt, a build or a write to the set.
C1_AtMostOnceRelay ==
    /\ [](\A h \in HexIds : built[h] <= 1)
    /\ [][(pc = "process_event" /\ TxIdOf(events[i]) \in processed_transactions)
            => /\ outcomes' = Append(outcomes, "AlreadyRelayed")
               /\ pc' = "loop"
               /\ UNCHANGED <<attempts, built, processed_transactions, building>>]_vars

\* An event whose id was relayed before has just been skipped.
C1_Witness ==
    /\ pc = "loop"
    /\ i >= 1
    /\ Len(outcomes) = i
    /\ outcomes[i] = "AlreadyRelayed"
    /\ built[TxIdOf(events[i])] = 1

\* C2: at the end of a cycle in which some dispatch failed, the watermark is
\* what it was at the start of the cycle.
C2_NoAdvanceAfterFailure ==
    (pc = "sleep" /\ SomeDispatchFailed) => last_processed_block = wm0

\* C3: an event whose dispatch failed and whose id is not relayed stays above
\* the watermark, so that a later scan returns it again.
C3_FailedEventStaysInRange ==
    \A k \in 1..Len(outcomes) :
        (outcomes[k] = "Failed" /\ TxIdOf(events[k]) \notin processed_transactions)
            => events[k].blockNumber > last_processed_block

\* C4: no step lowers the watermark.
C4_WatermarkMonotonic ==
    [][last_processed_block' >= last_processed_block]_vars

\* A cycle whose head read reported a height below the watermark has ended.
C4_Witness ==
    /\ pc = "sleep"
    /\ status = "head_ok"
    /\ latest_block < last_processed_block
    /\ last_processed_block = wm0

\* C5: when the watermark has moved in a cycle, it moved to the `to` of the
\* cycle's scan, and every event of that scan has been dispatched with a
\* known outcome.
C5_AdvanceAfterAllDispatched ==
    last_processed_block # wm0
        => /\ status = "query_ok"
           /\ last_processed_block = to_block
           /\ i = Len(events)
           /\ Len(outcomes) = Len(events)
           /\ building = {}

\* The watermark has moved after a scan of two events or more.
C5_Witness ==
    /\ last_processed_block # wm0
    /\ Len(events) >= 2
    /\ Len(outcomes) = Len(events)

\* C6: a failing dispatch leaves the dedup set as it was, and the dispatch of
\* an id that is not in the set makes a build attempt.
C6_FailureKeepsDedupSet ==
    [][/\ (pc = "build" /\ outcomes' = Append(outcomes, "Failed"))
            => processed_transactions' = processed_transactions
       /\ (pc = "process_event" /\ TxIdOf(events[i]) \notin processed_transactions)
            => /\ pc' = "build"
               /\ attempts' = [attempts EXCEPT ![TxIdOf(events[i])] = @ + 1]]_vars

\* An id whose first build failed is being built again.
C6_Witness ==
    /\ pc = "build"
    /\ attempts[TxIdOf(events[i])] = 2
    /\ built[TxIdOf(events[i])] = 0
    /\ TxIdOf(events[i]) \notin processed_transactions

\* C7: at the end of a cycle whose scan succeeded, every event of the scan
\* has an outcome, whichever dispatches failed.
C7_FailuresDoNotAbort ==
    (pc = "sleep" /\ status = "query_ok")
        => /\ Len(outcomes) = Len(events)
           /\ i = Len(events)

\* A cycle has ended in which the first dispatch failed and a later event was
\* dispatched all the same.
C7_Witness ==
    /\ pc = "sleep"
    /\ status = "query_ok"
    /\ Len(outcomes) >= 2
    /\ outcomes[1] = "Failed"

\* C8: the scan result is in ascending block order, at most one build is in
\* progress, it is the build of the event the loop stands at, and the
\* outcomes of all earlier events of the scan are known.
C8_SequentialDispatch ==
    /\ IsLog(events)
    /\ Cardinality(building) <= 1
    /\ building # {} => (pc = "build" /\ building = {i})
    /\ pc = "build" => building = {i}
    /\ pc \in {"process_event", "build"} => Len(outcomes) = i - 1
    /\ pc = "loop" => Len(outcomes) = i

\* The second event of a scan is being built, the first one is done.
C8_Witness ==
    /\ pc = "build"
    /\ building = {2}
    /\ Len(outcomes) = 1
    /\ outcomes[1] \in {"Relayed", "Failed"}

\* C9: a failing head read ends the cycle without a query or a dispatch and
\* without a change of the watermark or of the dedup set, and the step after
\* the sleep is the head read of a new cycle.
C9_HeadFailureSkipsCycle ==
    [][/\ (pc = "head" /\ status' = "head_failed")
            => /\ pc' = "sleep"
               /\ queried' = <<>>
               /\ outcomes' = <<>>
               /\ UNCHANGED <<last_processed_block, processed_transactions,
                              attempts, built, building>>
       /\ (pc = "sleep" /\ status = "head_failed")
            => /\ pc' = "head"
               /\ UNCHANGED <<last_processed_block, processed_transactions,
                              queried, outcomes, attempts, built>>]_vars

\* A new cycle is about to start after a cycle whose head read failed, with
\* relayed ids in the dedup set.
C9_Witness ==
    /\ pc = "head"
    /\ status = "head_failed"
    /\ queried = <<>>
    /\ processed_transactions # {}

FailureSeen ==
    \/ status \in {"head_failed", "query_failed"}
    \/ SomeDispatchFailed

\* C10: the loop never leaves its cycle: it does not crash, after a failure of
\* the head read, the query or a dispatch it reaches the sleep, and after the
\* sleep it reads the head again.
C10_LoopNeverTerminates ==
    /\ [](pc # "crashed")
    /\ FailureSeen ~> (pc = "sleep")
    /\ (pc = "sleep") ~> (pc = "head")

\* A new cycle is about to start after a cycle whose event query failed.
C10_Witness ==
    /\ pc = "head"
    /\ status = "query_failed"

\* C11: a head read that reports a height at or below the watermark ends the
\* cycle in the sleep without an event query or a dispatch and without a
\* change of the watermark or of the dedup set.
C11_NothingNewSkipsCycle ==
    /\ []((status = "head_ok" /\ latest_block <= wm0)
            => /\ pc \in {"sleep", "head"}
               /\ queried = <<>>
               /\ outcomes = <<>>
               /\ last_processed_block = wm0)
    /\ [][(pc = "head" /\ status' = "head_ok"
             /\ latest_block' <= last_processed_block)
            => /\ pc' = "sleep"
               /\ UNCHANGED <<last_processed_block, processed_transactions,
                              attempts, built, building>>]_vars

\* A cycle whose head read reported exactly the watermark has ended, with
\* relayed ids in the dedup set.
C11_Witness ==
    /\ pc = "sleep"
    /\ status = "head_ok"
    /\ latest_block = last_processed_block
    /\ queried = <<>>
    /\ processed_transactions # {}

\* C13: every id of the dedup set has had a successful build+sign, and no
\* step removes an id from the set.
C13_DedupRecordsOnlySuccess ==
    /\ [](\A h \in processed_transactions : built[h] >= 1)
    /\ [][processed_transactions \subseteq processed_transactions']_vars

\* One id is in the dedup set while another id, whose only build failed, is
\* not.
C13_Witness ==
    /\ processed_transactions # {}
    /\ \E h \in HexIds \ processed_transactions :
           attempts[h] >= 1 /\ built[h] = 0
    /\ pc = "sleep"

\* C16: in a cycle whose event query failed the watermark keeps its value and
\* nothing is dispatched; the watermark changes only after a query that
\* succeeded, in one step from its value at the start of the cycle to the
\* `to` of that query.
C16_QueryFailureKeepsWatermark ==
    /\ [](status = "query_failed"
            => /\ pc \in {"sleep", "head"}
               /\ last_processed_block = wm0
               /\ outcomes = <<>>)
    /\ [][last_processed_block' # last_processed_block
            => /\ status = "query_ok"
               /\ last_processed_block = wm0
               /\ queried = <<<<last_processed_block + 1, to_block>>>>
               /\ last_processed_block' = to_block]_vars

\* A cycle has ended whose query failed although the log has an event in the
\* range.
C16_Witness ==
    /\ pc = "sleep"
    /\ status = "query_failed"
    /\ queried = <<<<last_processed_block + 1, latest_block>>>>
    /\ \E k \in 1..Len(log) :
           /\ log[k].blockNumber > last_processed_block
           /\ log[k].blockNumber <= latest_block

\* C18: a call of process_event makes at most one build attempt, made when the
\* call starts on an id that is not in the dedup set; the build ends the call
\* with one outcome and without another attempt; the id is inserted, once,
\* when the outcome is Relayed, and the set is left alone otherwise.
C18_OneAttemptPerCall ==
    [][/\ attempts' # attempts
            => /\ pc = "process_event"
               /\ pc' = "build"
               /\ attempts' = [attempts EXCEPT ![TxIdOf(events[i])] = @ + 1]
       /\ pc = "build"
            => /\ pc' = "loop"
               /\ Len(outcomes') = Len(outcomes) + 1
               /\ attempts' = attempts
       /\ (pc \in {"process_event", "build"} /\ pc' = "loop")
            => IF outcomes'[Len(outcomes')] = "Relayed"
               THEN /\ TxIdOf(events[i]) \notin processed_transactions
                    /\ processed_transactions' =
                           processed_transactions \cup {TxIdOf(events[i])}
                    /\ built' = [built EXCEPT ![TxIdOf(events[i])] = @ + 1]
               ELSE /\ processed_transactions' = processed_transactions
                    /\ built' = built]_vars

\* A call has returned after its one build attempt failed, with nothing
\* inserted.
C18_Witness ==
    /\ pc = "loop"
    /\ i >= 1
    /\ Len(outcomes) = i
    /\ outcomes[i] = "Failed"
    /\ attempts[TxIdOf(events[i])] = 1
    /\ built[TxIdOf(events[i])] = 0
    /\ TxIdOf(events[i]) \notin processed_transactions

\* C17: no event query of the loop covers more blocks than the scan-range
\* cap.
C17_QueriesWithinCap ==
    \A k \in 1..Len(queried) : queried[k][2] - queried[k][1] + 1 <= ScanRangeCap

\* C20: every event query goes from the watermark + 1 to the head read in the
\* same cycle, which is not below it, and the scans that advanced the
\* watermark cover every block of (initial watermark, watermark] exactly once
\* and no other block.
C20_ScansTileTheChain ==
    /\ \A k \in 1..Len(queried) :
           /\ queried[k] = <<wm0 + 1, latest_block>>
           /\ wm0 + 1 <= latest_block
    /\ covered = SetToBag((wm_init + 1)..last_processed_block)

\* The watermark has advanced in an earlier cycle and again in this one.
C20_Witness ==
    /\ wm_init < wm0
    /\ wm0 < last_processed_block
    /\ pc = "sleep"

\* C15: the arguments of the releaseTokens call being built are the event's
\* transactionId, sender, token and amount, unchanged and in this order, in
\* every state: whatever the dedup set, the watermark and the dispatches
\* before, so that equal events derive equal arguments.
C15_ReleaseArgsFromEventOnly ==
    /\ pc = "build"
         => release_args = <<events[i].transactionId, events[i].sender,
                             events[i].token, events[i].amount>>
    /\ pc # "build" => release_args = <<>>

\* The release of the second event of a scan is being built after the build
\* for the first event, of the same id and another amount, has failed.
C15_Witness ==
    /\ pc = "build"
    /\ i = 2
    /\ release_args[2] = "0xS2"
    /\ release_args[3] = "0xT2"
    /\ release_args[4] = 51
    /\ events[1].amount = 50
    /\ attempts[TxIdOf(events[i])] = 2

\* C14: with a required configuration value missing the process never enters
\* the relay loop, and when it has ended its exit status is not zero.
C14_MissingConfigIsFatal ==
    ~RequiredPresent
        => /\ pc \in {"main", "exited"}
           /\ status = "start"
           /\ queried = <<>>
           /\ pc = "exited" => exit_status # <<0>>

\* C19: when run() is entered the watermark is the configured START_BLOCK if
\* one is configured, whatever its value, and a height the ledger reported
\* otherwise.
C19_WatermarkFromStartBlock ==
    (pc = "head" /\ status = "start")
        => IF environ.START_BLOCK.set
           THEN last_processed_block = ParseInt(environ.START_BLOCK.value)
           ELSE last_processed_block \in head_range

\* The ledger of the scenario: one event, transactionId 0xAA, amount 50, in
\* block 103.
ScenarioLog ==
    <<[transactionId |-> <<170>>, sender |-> "0xS1", token |-> "0xT1",
       amount |-> 50, blockNumber |-> 103]>>

\* C12: with the watermark at 100 and the one event of block 103, a cycle
\* that reads the head 105 queries exactly 101..105; when the build does not
\* fail it ends with the event dispatched once, Relayed, its id in the dedup
\* set and the watermark at 105; a cycle that then reads 105 again issues no
\* query and dispatches nothing.
C12_EndToEnd ==
    log = ScenarioLog
        => /\ (wm0 = 100 /\ latest_block = 105 /\ status = "head_ok")
                => (pc = "query" /\ from_block = 101 /\ to_block = 105)
           /\ (wm0 = 100 /\ latest_block = 105
                 /\ status \in {"query_ok", "query_failed"})
                => queried = <<<<101, 105>>>>
           /\ (wm0 = 100 /\ latest_block = 105 /\ status = "query_ok"
                 /\ pc = "sleep" /\ ~SomeDispatchFailed)
                => /\ events = ScenarioLog
                   /\ outcomes = <<"Relayed">>
                   /\ processed_transactions = {<<"a", "a">>}
                   /\ attempts[<<"a", "a">>] = 1
                   /\ built[<<"a", "a">>] = 1
                   /\ last_processed_block = 105
           /\ (wm0 = 105 /\ latest_block = 105 /\ status = "head_ok")
                => /\ pc \in {"sleep", "head"}
                   /\ queried = <<>>
                   /\ outcomes = <<>>
                   /\ attempts[<<"a", "a">>] <= 1
                   /\ last_processed_block = 105

\* The second cycle has ended: the event was relayed in a cycle before, the
\* head is still 105 and nothing was queried.
C12_Witness ==
    /\ log = ScenarioLog
    /\ wm_init = 100
    /\ wm0 = 105
    /\ latest_block = 105
    /\ status = "head_ok"
    /\ pc = "sleep"
    /\ queried = <<>>
    /\ processed_transactions = {<<"a", "a">>}
    /\ built[<<"a", "a">>] = 1
    /\ covered = SetToBag(101..105)

====
